---- MODULE Spec2Model ----
(***************************************************************************)
(* lanprobe.py: a paced TCP/UDP sender ("server") and a throughput         *)
(* measuring receiver ("client").                                          *)
(*                                                                         *)
(* Time is counted in ticks of 1/TicksPerSec second.  A blocking call      *)
(* (accept, sleep, send, recv) takes time; the statements between two      *)
(* blocking calls take none.  The send deadline next_send_time is the      *)
(* rational nextNum / Den(args) ticks, so that the source's                *)
(* "packet_size / bytes_per_sec" is exact.                                 *)
(***************************************************************************)
EXTENDS Integers, Naturals, Sequences, FiniteSets, TLC

\* ------------------------------------------- program constants, in ticks
\* now - last_report_time >= 1.0: the report period of one second is 30
\* ticks, which fixes the tick
ReportPeriod == 30
TicksPerSec  == ReportPeriod

AcceptTimeout      == TicksPerSec          \* listen_sock.settimeout(1.0)
FirstPacketTimeout == 5 * TicksPerSec      \* sock.settimeout(5.0)
TcpRecvTimeout     == TicksPerSec \div 10  \* sock.settimeout(0.1)
UdpRecvTimeout     == TicksPerSec          \* sock.settimeout(1.0)
BytesPerKbit       == 125                  \* args.speed * 125000, per Mbit

\* ----------------------------------------------------------------- bounds
MaxServerTime == 62     \* the sender's clock stops advancing here
MaxClientTime == 84     \* the receiver's clock stops advancing here
MaxOvershoot  == 1      \* ticks a sleep may overshoot
MaxLatency    == 1      \* ticks a send may take
MaxSends      == 3      \* packets sent per send loop
MaxSessions   == 2      \* send loops started by run_server
MaxRecvLen    == 2      \* bytes returned by one recv
MaxBytes      == 4      \* bytes received in one session

\* ------------------------------------------------------------------ inputs
Speeds    == {0, 5, 1000}         \* --speed, in kbit/s (1000 = 1 Mbit/s)
Packets   == {1250, 12500}        \* --packet, bytes
Durations == {21, 66}             \* --time, in ticks (66 = 2.2 s)
Targets   == {"none", "192.168.2.114"}

VARIABLES
    args,             \* parsed command line
    pc,               \* position of the single thread
    now,              \* the clock (time.perf_counter / time.time), ticks
    stop,             \* stop_event
    \* sender
    listenOpen,       \* listen_sock not closed
    connOpen,         \* conn accepted and not closed
    nextNum,          \* next_send_time * Den(args)
    dest,             \* dest_addr of the UDP send loop
    \* receiver
    sockOpen,         \* sock not closed
    total_bytes, start_time, last_report_time, last_bytes,
    \* history
    stopAt,           \* clock when stop_event was set (-1: not set)
    stopWhere,        \* pc at which stop_event was set by another thread
    sessions,         \* send loops started
    listenMade,       \* listening sockets created
    accepted,         \* connections accepted
    startNum,         \* next_send_time * Den(args) at the start of the loop
    sent,             \* successful sends of the current loop
    sendErrors,       \* failed sends
    reports,          \* messages printed, as a set
    samples,          \* periodic samples printed
    lastSample,       \* the last periodic sample
    prevSampleT,      \* timestamp of the sample before it (or start_time)
    result,           \* the final statistics
    firstLen,         \* length of the first packet
    recvSum,          \* sum of the lengths of all successful receives
    sampleSum,        \* sum of the delta_bytes of all samples
    lastRecv,         \* how the last receive ended: "data" or "timeout"
    endedBy,          \* why the session ended
    \* scenario (constant-rate arrivals)
    spacing, perEvent, nextArrival

sndvars == <<listenOpen, connOpen, nextNum, dest>>
rcvvars == <<sockOpen, total_bytes, start_time, last_report_time, last_bytes>>
sndhist == <<sessions, listenMade, accepted, startNum, sent, sendErrors>>
rcvhist == <<samples, lastSample, prevSampleT, result, firstLen, recvSum,
             sampleSum, lastRecv>>
scenario == <<spacing, perEvent, nextArrival>>
vars == <<args, pc, now, stop, sndvars, rcvvars, stopAt, stopWhere, sndhist,
          reports, rcvhist, endedBy, scenario>>

NoSample == [t |-> 0, dt |-> 0, delta_bytes |-> 0, bits |-> 0, total |-> 0]
NoResult == [finalized |-> FALSE, divided |-> FALSE, zeroDiv |-> FALSE,
             printed |-> FALSE, total |-> 0, final_time |-> 0, avgNum |-> 0]

\* ------------------------------------------------------------ pure helpers
CeilDiv(a, b) == (a + b - 1) \div b

\* bytes_per_sec = args.speed * 125000, with args.speed counted in kbit/s
BytesPerSec(a) == a.speed * BytesPerKbit

\* denominator of the deadline: bytes_per_sec when pacing, else 1
Den(a) == IF BytesPerSec(a) > 0 THEN BytesPerSec(a) ELSE 1

\* interval = packet_size / bytes_per_sec if bytes_per_sec > 0 else 0,
\* as interval * Den(a) ticks
IntervalNumAlways(a) == a.packet * TicksPerSec
IntervalNum(a) == IF BytesPerSec(a) > 0 THEN a.packet * TicksPerSec ELSE 0

\* dest_addr of server_udp_session
DestAddr(a) == IF a.target # "none" THEN <<a.target, a.port>>
               ELSE <<"255.255.255.255", a.port>>

ServerArgs == {a \in [mode : {"server"}, type : {"tcp", "udp"},
                          speed : Speeds, packet : Packets, time : {0},
                          target : Targets, port : {5000}] :
                   a.type = "tcp" => a.target = "none"}
ClientArgs == [mode : {"client"}, type : {"tcp", "udp"}, speed : {0},
               packet : {0}, time : Durations, target : {"none"},
               port : {5000}]

InitCommon ==
    /\ now = 0 /\ stop = FALSE /\ stopAt = -1 /\ stopWhere = "none"
    /\ connOpen = FALSE /\ nextNum = 0 /\ dest = <<>>
    /\ total_bytes = 0 /\ start_time = -1 /\ last_report_time = -1
    /\ last_bytes = 0
    /\ sessions = 0 /\ accepted = 0 /\ startNum = 0 /\ sent = 0
    /\ sendErrors = 0
    /\ reports = {} /\ samples = 0 /\ lastSample = NoSample
    /\ prevSampleT = -1 /\ result = NoResult /\ firstLen = 0
    /\ recvSum = 0 /\ sampleSum = 0 /\ endedBy = "none"
    /\ lastRecv = "none"

\* main(): run_server has created listen_sock, or client_tcp / client_udp
\* has created sock
Init ==
    /\ InitCommon
    /\ args \in ServerArgs \cup ClientArgs
    /\ pc = IF args.mode = "server" THEN "serve"
            ELSE IF args.type = "tcp" THEN "connect" ELSE "first"
    /\ listenOpen = (args.mode = "server")
    /\ listenMade = IF args.mode = "server" THEN 1 ELSE 0
    /\ sockOpen = (args.mode = "client")
    /\ spacing = 0 /\ perEvent = 0 /\ nextArrival = 0

IsServer == args.mode = "server"
IsClient == args.mode = "client"
IsTcp == args.type = "tcp"
IsUdp == args.type = "udp"

\* ================================================================= sender
\* bytes_per_sec .. next_send_time = time.perf_counter()
StartSendLoop(t) ==
    /\ nextNum' = t * Den(args)
    /\ startNum' = t * Den(args)
    /\ sent' = 0
    /\ sessions' = sessions + 1

\* run_server: while not stop_event.is_set(): ... finally: listen_sock.close()
Serve ==
    /\ IsServer /\ pc = "serve"
    /\ IF stop
       THEN /\ pc' = "done" /\ listenOpen' = FALSE
            /\ endedBy' = "cancel"
            /\ UNCHANGED <<connOpen, nextNum, dest, sndhist>>
       ELSE IF IsTcp
       THEN /\ pc' = "accept_top"
            /\ UNCHANGED <<listenOpen, connOpen, nextNum, dest, sndhist,
                           endedBy>>
       ELSE /\ sessions < MaxSessions
            /\ pc' = "loop"
            /\ dest' = DestAddr(args)
            /\ StartSendLoop(now)
            /\ UNCHANGED <<listenOpen, connOpen, listenMade, accepted,
                           sendErrors, endedBy>>
    /\ UNCHANGED <<args, now, stop, rcvvars, stopAt, stopWhere, reports,
                   rcvhist, scenario>>

\* the condition of the accept loop: while not stop_event.is_set()
AcceptLoopBlind == TRUE
AcceptLoopRuns == ~stop

\* server_tcp_session: while not stop_event.is_set() around accept();
\* if conn is None: return
AcceptTop ==
    /\ IsServer /\ pc = "accept_top"
    /\ pc' = IF AcceptLoopRuns THEN "accepting" ELSE "serve"
    /\ UNCHANGED <<args, now, stop, sndvars, rcvvars, stopAt, stopWhere,
                   sndhist, reports, rcvhist, endedBy, scenario>>

\* conn, addr = listen_sock.accept(); break; conn.settimeout(None); ...
AcceptConn(dl) ==
    /\ IsServer /\ pc = "accepting"
    /\ sessions < MaxSessions
    /\ now + dl <= MaxServerTime
    /\ now' = now + dl
    /\ connOpen' = TRUE
    /\ accepted' = accepted + 1
    /\ StartSendLoop(now + dl)
    /\ pc' = "loop"
    /\ UNCHANGED <<args, stop, listenOpen, dest, rcvvars, stopAt, stopWhere,
                   listenMade, sendErrors, reports, rcvhist,
                   endedBy, scenario>>

Accept == \E dl \in {0, 1} : AcceptConn(dl)

\* except socket.timeout: continue
AcceptTimedOut ==
    /\ IsServer /\ pc = "accepting"
    /\ now + AcceptTimeout <= MaxServerTime
    /\ now' = now + AcceptTimeout
    /\ pc' = "accept_top"
    /\ UNCHANGED <<args, stop, sndvars, rcvvars, stopAt, stopWhere, sndhist,
                   reports, rcvhist, endedBy, scenario>>

\* except OSError: return
AcceptError ==
    /\ IsServer /\ pc = "accepting"
    /\ pc' = "serve"
    /\ UNCHANGED <<args, now, stop, sndvars, rcvvars, stopAt, stopWhere,
                   sndhist, reports, rcvhist, endedBy, scenario>>

\* if now < next_send_time
MustSleep(t) == t * Den(args) < nextNum

\* the condition of the send loop: while not stop_event.is_set()
SendLoopRuns == ~stop

\* finally: conn.close(): whether the connection is open afterwards
ConnKept == connOpen
ConnClosed == FALSE

\* top of the send loop; on exit the TCP session runs finally: conn.close()
LoopTop ==
    /\ IsServer /\ pc = "loop"
    /\ IF SendLoopRuns
       THEN /\ pc' = IF MustSleep(now) THEN "sleep" ELSE "send"
            /\ UNCHANGED connOpen
       ELSE /\ pc' = "serve"
            /\ connOpen' = ConnClosed
    /\ UNCHANGED <<args, now, stop, listenOpen, nextNum, dest, rcvvars,
                   stopAt, stopWhere, sndhist, reports, rcvhist, endedBy,
                   scenario>>

\* time.sleep(max(0, next_send_time - now)): wakes at the deadline or later
SleepEnds(ov) ==
    /\ IsServer /\ pc = "sleep"
    /\ now' = CeilDiv(nextNum, Den(args)) + ov
    /\ pc' = "send"
    /\ UNCHANGED <<args, stop, sndvars, rcvvars, stopAt, stopWhere, sndhist,
                   reports, rcvhist, endedBy, scenario>>

Sleep == \E ov \in 0..MaxOvershoot : SleepEnds(ov)

\* next_send_time += interval
AdvanceFromNow(num, t) == t * Den(args) + IntervalNum(args)
Advance(num, t) == num + IntervalNum(args)

\* conn.sendall(data) / sock.sendto(data, dest_addr) returns
SendOk(lat) ==
    /\ IsServer /\ pc = "send"
    /\ sent < MaxSends
    /\ now + lat <= MaxServerTime
    /\ now' = now + lat
    /\ nextNum' = Advance(nextNum, now + lat)
    /\ sent' = sent + 1
    /\ pc' = "loop"
    /\ UNCHANGED <<args, stop, listenOpen, connOpen, dest, rcvvars, stopAt,
                   stopWhere, sessions, listenMade, accepted, startNum,
                   sendErrors, reports, rcvhist, endedBy, scenario>>

Send == \E lat \in 0..MaxLatency : SendOk(lat)

\* conn.settimeout(None): sendall waits for as long as the peer does not read
SendBlocked ==
    /\ IsServer /\ IsTcp /\ pc = "send"
    /\ now + TicksPerSec <= MaxServerTime
    /\ now' = now + TicksPerSec
    /\ UNCHANGED <<args, pc, stop, sndvars, rcvvars, stopAt, stopWhere,
                   sndhist, reports, rcvhist, endedBy, scenario>>

\* except (BrokenPipeError, ConnectionResetError, OSError): the write
\* failure of the TCP session is caught in server_tcp_session
SendFailureEscapes == FALSE
SendFailureCaught == TRUE

\* the send raises OSError.
\* TCP: except (...): print; finally: conn.close().
\* UDP: except OSError as e: if not stop_event.is_set(): print
\* Both return to run_server.  (Uncaught, the exception would leave
\* run_server through finally: listen_sock.close().)
SendFails ==
    LET caught == IsUdp \/ SendFailureCaught IN
    /\ IsServer /\ pc = "send"
    /\ sendErrors < MaxSessions
    /\ sendErrors' = sendErrors + 1
    /\ connOpen' = ConnClosed
    /\ reports' = IF IsTcp THEN reports \cup {"client disconnected"}
                  ELSE IF ~stop THEN reports \cup {"udp send error"}
                  ELSE reports
    /\ pc' = IF caught THEN "serve" ELSE "done"
    /\ listenOpen' = (caught /\ listenOpen)
    /\ endedBy' = IF caught THEN endedBy ELSE "error"
    /\ UNCHANGED <<args, now, stop, nextNum, dest, rcvvars,
                   stopAt, stopWhere, sessions, listenMade, accepted,
                   startNum, sent, rcvhist, scenario>>

\* stop_event.set(): the value of the flag afterwards
StopEventToggle == ~stop
StopEventSet == TRUE

\* Ctrl+C in the sender: every handler on the way out of run_server
\* (finally: conn.close(); except KeyboardInterrupt: stop_event.set();
\* finally: listen_sock.close())
ServerInterrupt ==
    /\ IsServer /\ pc # "done"
    /\ connOpen' = FALSE
    /\ listenOpen' = FALSE
    /\ stop' = StopEventSet
    /\ stopAt' = IF stop THEN stopAt ELSE now
    /\ endedBy' = "interrupt"
    /\ pc' = "done"
    /\ UNCHANGED <<args, now, nextNum, dest, rcvvars, stopWhere, sndhist,
                   reports, rcvhist, scenario>>

\* stop_event.set() by another thread of the process
ExternalStop ==
    /\ ~stop /\ pc # "done"
    /\ stop' = StopEventSet
    /\ stopAt' = now
    /\ stopWhere' = pc
    /\ UNCHANGED <<args, pc, now, sndvars, rcvvars, sndhist, reports, rcvhist,
                   endedBy, scenario>>

\* ================================================================ receiver
RecvTimeout == IF IsTcp THEN TcpRecvTimeout ELSE UdpRecvTimeout

\* lengths one recv(8192) / recvfrom(8192) can return: a TCP read of length
\* 0 is the peer's close, a UDP datagram may be empty
RecvLens == IF IsTcp THEN 1..MaxRecvLen ELSE 0..MaxRecvLen

\* if final_time > 0
FinalGuardZero(ft) == ft >= 0
FinalGuard(ft) == ft > 0

\* finally: final_time = time.time() - start_time; if final_time > 0:
\* avg_speed = (total_bytes * 8) / final_time / 1e6; print(...)
\* The average is the rational avgNum / final_time bits per tick; a division
\* by 0 raises ZeroDivisionError and prints nothing.
FinalStats(t, tot) ==
    LET ft == t - start_time IN
    IF FinalGuard(ft)
    THEN [finalized |-> TRUE, divided |-> TRUE, zeroDiv |-> (ft = 0),
          printed |-> (ft # 0), total |-> tot, final_time |-> ft,
          avgNum |-> IF ft # 0 THEN tot * 8 ELSE 0]
    ELSE [finalized |-> TRUE, divided |-> FALSE, zeroDiv |-> FALSE,
          printed |-> FALSE, total |-> tot, final_time |-> ft, avgNum |-> 0]

\* the finally block of the measuring loop, then sock.close()
CloseOnly(t, tot, why) ==
    /\ result' = result
    /\ sockOpen' = FALSE
    /\ endedBy' = why
    /\ pc' = "done"
Finalize(t, tot, why) ==
    /\ result' = FinalStats(t, tot)
    /\ sockOpen' = FALSE
    /\ endedBy' = why
    /\ pc' = "done"

\* sock.connect((args.host, args.port)); sock.settimeout(5.0)
ConnectOk(lat) ==
    /\ IsClient /\ pc = "connect"
    /\ now' = now + lat
    /\ pc' = "first"
    /\ UNCHANGED <<args, stop, sndvars, rcvvars, stopAt, stopWhere, sndhist,
                   reports, rcvhist, endedBy>>

\* connect raises: nothing catches it, sock is left to the interpreter
ConnectFails ==
    /\ IsClient /\ pc = "connect"
    /\ pc' = "done"
    /\ endedBy' = "connect_error"
    /\ UNCHANGED <<args, now, stop, sndvars, rcvvars, stopAt, stopWhere,
                   sndhist, reports, rcvhist, scenario>>

\* the first recv / recvfrom returns n bytes: total_bytes = len(data);
\* start_time = time.time(); last_report_time = start_time;
\* last_bytes = total_bytes (UDP: sock.settimeout(1.0))
FirstData(dl, n) ==
    /\ IsClient /\ pc = "first"
    /\ now' = now + dl
    /\ total_bytes' = n
    /\ start_time' = now + dl
    /\ last_report_time' = now + dl
    /\ last_bytes' = n
    /\ firstLen' = n
    /\ recvSum' = n
    /\ lastRecv' = "data"
    /\ reports' = reports \cup {"first packet"}
    /\ pc' = "mloop"
    /\ UNCHANGED <<args, stop, sndvars, sockOpen, stopAt, stopWhere, sndhist,
                   samples, lastSample, prevSampleT, result, sampleSum,
                   endedBy>>

\* TCP: if not data: print(...); return
FirstEof(dl) ==
    /\ IsClient /\ IsTcp /\ pc = "first"
    /\ now' = now + dl
    /\ reports' = reports \cup {"closed at once"}
    /\ endedBy' = "eof_first"
    /\ pc' = "done"
    /\ UNCHANGED <<args, stop, sndvars, rcvvars, stopAt, stopWhere, sndhist,
                   rcvhist, scenario>>

\* where the session goes when the first receive times out
FirstTimeoutGoesOn == "mloop"
FirstTimeoutNext == "done"

\* TCP: except socket.timeout: print(...); sock.close(); return
\* UDP: except socket.timeout: print(...); finally: start_time is None;
\*      sock.close()
FirstTimedOut ==
    /\ IsClient /\ pc = "first"
    /\ now' = now + FirstPacketTimeout
    /\ pc' = FirstTimeoutNext
    /\ IF FirstTimeoutNext = "done"
       THEN /\ reports' = reports \cup {"no traffic"}
            /\ sockOpen' = FALSE
            /\ endedBy' = "no_traffic"
       ELSE UNCHANGED <<reports, sockOpen, endedBy>>
    /\ UNCHANGED <<args, stop, sndvars, total_bytes, start_time,
                   last_report_time, last_bytes, stopAt, stopWhere, sndhist,
                   rcvhist, scenario>>

\* the first receive raises another OSError: TCP has no finally here,
\* UDP runs finally: sock.close()
FirstError ==
    /\ IsClient /\ pc = "first"
    /\ sockOpen' = IsTcp
    /\ endedBy' = "error_first"
    /\ pc' = "done"
    /\ UNCHANGED <<args, now, stop, sndvars, total_bytes, start_time,
                   last_report_time, last_bytes, stopAt, stopWhere, sndhist,
                   reports, rcvhist, scenario>>

\* the condition of the measuring loop: while not stop_event.is_set()
MeasureLoopBlind == TRUE
MeasureLoopRuns == ~stop

\* top of the measuring loop (TCP: sock.settimeout(0.1))
MeasureTop ==
    /\ IsClient /\ pc = "mloop"
    /\ IF MeasureLoopRuns
       THEN /\ pc' = "recv"
            /\ UNCHANGED <<sockOpen, result, endedBy>>
       ELSE Finalize(now, total_bytes, "cancel")
    /\ UNCHANGED <<args, now, stop, sndvars, total_bytes, start_time,
                   last_report_time, last_bytes, stopAt, stopWhere, sndhist,
                   reports, samples, lastSample, prevSampleT, firstLen,
                   recvSum, sampleSum, lastRecv>>

\* if now - last_report_time >= 1.0
SampleDueAlways(t) == TRUE
SampleDue(t) == t - last_report_time >= ReportPeriod

\* delta_bytes = total_bytes - last_bytes;
\* speed_mbps = (delta_bytes * 8) / (now - last_report_time) / 1e6
\* as the rational bits / dt
SampleOfTotal(t, tot) ==
    [t |-> t, dt |-> t - last_report_time, delta_bytes |-> tot,
     bits |-> tot * 8, total |-> tot]
Sample(t, tot) ==
    [t |-> t, dt |-> t - last_report_time, delta_bytes |-> tot - last_bytes,
     bits |-> (tot - last_bytes) * 8, total |-> tot]

\* if now - start_time >= args.time: break
DurationOver(t) == t - start_time >= args.time

\* total_bytes += len(data)
CountPackets(tot, n) == tot + 1
Count(tot, n) == tot + n

\* recv / recvfrom returns n > 0 bytes (or an empty datagram) after dl:
\* count them, report once a second, stop after args.time
RecvData(dl, n) ==
    LET t == now + dl
        tot == Count(total_bytes, n)
    IN
    /\ IsClient /\ pc = "recv"
    /\ now' = t
    /\ total_bytes' = tot
    /\ recvSum' = recvSum + n
    /\ lastRecv' = "data"
    /\ IF SampleDue(t)
       THEN /\ samples' = samples + 1
            /\ lastSample' = Sample(t, tot)
            /\ prevSampleT' = last_report_time
            /\ sampleSum' = sampleSum + Sample(t, tot).delta_bytes
            /\ last_bytes' = tot
            /\ last_report_time' = t
       ELSE UNCHANGED <<samples, lastSample, prevSampleT, sampleSum,
                        last_bytes, last_report_time>>
    /\ IF DurationOver(t)
       THEN Finalize(t, tot, "duration")
       ELSE /\ pc' = "mloop"
            /\ UNCHANGED <<sockOpen, result, endedBy>>
    /\ UNCHANGED <<args, stop, sndvars, start_time, stopAt, stopWhere,
                   sndhist, reports, firstLen>>

\* TCP: if not data: print(...); break
RecvEof(dl) ==
    /\ IsClient /\ IsTcp /\ pc = "recv"
    /\ now' = now + dl
    /\ reports' = reports \cup {"server closed"}
    /\ Finalize(now + dl, total_bytes, "eof")
    /\ UNCHANGED <<args, stop, sndvars, total_bytes, start_time,
                   last_report_time, last_bytes, stopAt, stopWhere, sndhist,
                   samples, lastSample, prevSampleT, firstLen, recvSum,
                   sampleSum, lastRecv>>

\* except socket.timeout: continue
RecvTimedOut ==
    /\ IsClient /\ pc = "recv"
    /\ now' = now + RecvTimeout
    /\ pc' = "mloop"
    /\ lastRecv' = "timeout"
    /\ UNCHANGED <<args, stop, sndvars, rcvvars, stopAt, stopWhere, sndhist,
                   reports, samples, lastSample, prevSampleT, result,
                   firstLen, recvSum, sampleSum, endedBy>>

\* recv raises another OSError: finally, then the exception leaves main
RecvError ==
    /\ IsClient /\ pc = "recv"
    /\ Finalize(now, total_bytes, "error")
    /\ UNCHANGED <<args, now, stop, sndvars, total_bytes, start_time,
                   last_report_time, last_bytes, stopAt, stopWhere, sndhist,
                   reports, samples, lastSample, prevSampleT, firstLen,
                   recvSum, sampleSum, lastRecv, scenario>>

\* Ctrl+C in the receiver: the finally blocks on the way out, then main's
\* except KeyboardInterrupt: stop_event.set()
ClientInterrupt ==
    /\ IsClient /\ pc # "done"
    /\ stop' = StopEventSet
    /\ stopAt' = IF stop THEN stopAt ELSE now
    /\ IF pc \in {"mloop", "recv"}
       THEN Finalize(now, total_bytes, "interrupt")
       ELSE /\ pc' = "done"
            /\ endedBy' = "interrupt"
            /\ sockOpen' = (IsTcp /\ sockOpen)
            /\ UNCHANGED result
    /\ UNCHANGED <<args, now, sndvars, total_bytes, start_time,
                   last_report_time, last_bytes, stopWhere, sndhist, reports,
                   samples, lastSample, prevSampleT, firstLen, recvSum,
                   sampleSum, lastRecv, scenario>>

\* ------------------------------------------- the receiver, any arrivals
FirstDelays == {6}
DataDelays == {d \in {0, 3, 15} : d <= RecvTimeout}

Connect == \E lat \in {0, 3} : ConnectOk(lat) /\ UNCHANGED scenario

First == \E dl \in FirstDelays, n \in RecvLens :
             FirstData(dl, n) /\ UNCHANGED scenario

FirstClosed == \E dl \in FirstDelays : FirstEof(dl)

Top == MeasureTop /\ UNCHANGED scenario

Recv == \E dl \in DataDelays, n \in RecvLens :
            /\ total_bytes + n <= MaxBytes
            /\ now + dl <= MaxClientTime
            /\ RecvData(dl, n)
            /\ UNCHANGED scenario

RecvClosed == \E dl \in DataDelays : now + dl <= MaxClientTime /\ RecvEof(dl)
                                     /\ UNCHANGED scenario

RecvNothing == /\ now + RecvTimeout <= MaxClientTime
               /\ RecvTimedOut
               /\ UNCHANGED scenario

ServerNext ==
    \/ Serve
    \/ AcceptTop
    \/ Accept
    \/ AcceptTimedOut
    \/ AcceptError
    \/ LoopTop
    \/ Sleep
    \/ Send
    \/ SendBlocked
    \/ SendFails
    \/ ServerInterrupt

ClientNext ==
    \/ Connect
    \/ ConnectFails
    \/ First
    \/ FirstClosed
    \/ FirstTimedOut
    \/ FirstError
    \/ Top
    \/ Recv
    \/ RecvClosed
    \/ RecvNothing
    \/ RecvError
    \/ ClientInterrupt

Next ==
    \/ ServerNext
    \/ ClientNext
    \/ ExternalStop

Spec == Init /\ [][Next]_vars

\* ------------------------- the receiver, arrivals at a constant rate
\* The first packet starts the measurement; after it one packet of perEvent
\* bytes arrives every spacing ticks, for a measurement of 2.5 s that sees
\* at least two of them.
ScenarioDuration == (5 * TicksPerSec) \div 2
ScenarioSpacings ==
    {d \in 1..(ScenarioDuration - 1) : ScenarioDuration % d = 0}

ScenarioInit ==
    /\ InitCommon
    /\ args \in {a \in [mode : {"client"}, type : {"tcp", "udp"},
                        speed : {0}, packet : {0},
                        time : {ScenarioDuration}, target : {"none"},
                        port : {5000}] : TRUE}
    /\ pc = IF args.type = "tcp" THEN "connect" ELSE "first"
    /\ listenOpen = FALSE /\ listenMade = 0 /\ sockOpen = TRUE
    /\ spacing \in ScenarioSpacings
    /\ perEvent \in 1..MaxRecvLen
    /\ nextArrival = 0

ScenarioConnect == ConnectOk(0) /\ UNCHANGED scenario

ScenarioFirst ==
    \E n \in 1..MaxRecvLen :
        /\ FirstData(0, n)
        /\ nextArrival' = now + spacing
        /\ UNCHANGED <<spacing, perEvent>>

ScenarioTop == MeasureTop /\ UNCHANGED scenario

ScenarioRecv ==
    /\ nextArrival - now <= RecvTimeout
    /\ RecvData(nextArrival - now, perEvent)
    /\ nextArrival' = nextArrival + spacing
    /\ UNCHANGED <<spacing, perEvent>>

ScenarioTimeout ==
    /\ nextArrival - now > RecvTimeout
    /\ RecvTimedOut
    /\ UNCHANGED scenario

ScenarioNext ==
    \/ ScenarioConnect
    \/ ScenarioFirst
    \/ ScenarioTop
    \/ ScenarioRecv
    \/ ScenarioTimeout

ScenarioSpec == ScenarioInit /\ [][ScenarioNext]_vars

\* ================================================================= claims
Streaming == IsServer /\ pc \in {"loop", "sleep", "send"}
Measuring == IsClient /\ pc \in {"mloop", "recv"}

\* C1: in a paced send loop the deadline after N successful sends is the
\* deadline at the start of the loop plus N * interval, whatever the clock
\* readings, sleep overshoots and send latencies were.
C1_DeadlineIsStartPlusNIntervals ==
    Streaming => nextNum = startNum + sent * IntervalNum(args)

\* a paced sender that has fallen behind its schedule after three sends
C1_LateAfterThreeSends ==
    /\ Streaming /\ args.speed > 0 /\ args.packet > 0
    /\ sent >= 3
    /\ now * Den(args) > nextNum

\* C2: once stop_event is set while the sender is streaming, the send loop
\* is left within one second.
C2_SenderLeavesLoopWithinASecond ==
    (Streaming /\ stop /\ stopWhere \in {"loop", "sleep", "send"})
        => now - stopAt <= TicksPerSec

\* C3: once stop_event is set while the receiver is measuring, no further
\* receive is started, the loop is left within one receive timeout and the
\* session ends with its socket closed.
C3_ReceiverLeavesLoopWithinATimeout ==
    (IsClient /\ stop /\ stopWhere \in {"mloop", "recv"}) =>
        /\ Measuring => now - stopAt <= RecvTimeout
        /\ pc = "recv" => (stopWhere = "recv" /\ now = stopAt)
        /\ pc \in {"mloop", "recv", "done"}
        /\ pc = "done" => (~sockOpen /\ result.finalized)

\* a TCP receiver cancelled during a receive that then ran into its timeout
C3_CancelledDuringRecv ==
    /\ IsClient /\ IsTcp /\ pc = "done" /\ endedBy = "cancel"
    /\ stopWhere = "recv"
    /\ now - stopAt = TcpRecvTimeout
    /\ ~sockOpen

\* C4: the measuring loop is left once args.time has elapsed since
\* start_time, also when only receive timeouts occur.
C4_LoopEndsAfterDuration ==
    (IsClient /\ pc = "mloop") => now - start_time < args.time

\* C5: a failed write closes the connection and returns the TCP sender to
\* listening on the same listening socket, which stays open, for every
\* disconnect while stop_event is not set.
C5_WriteFailureReturnsToListening ==
    /\ [][(IsServer /\ IsTcp /\ sendErrors' = sendErrors + 1) =>
            /\ connOpen /\ ~connOpen'
            /\ pc' = "serve"
            /\ listenOpen /\ listenOpen'
            /\ listenMade' = listenMade]_vars
    /\ [][(IsServer /\ IsTcp /\ pc = "serve" /\ ~stop /\ pc' # pc /\ ~stop') =>
            /\ pc' = "accept_top"
            /\ listenOpen' /\ listenMade' = listenMade]_vars
    /\ []((IsServer /\ IsTcp /\ pc \in {"accept_top", "accepting"}) =>
            (listenOpen /\ ~connOpen /\ listenMade = 1))

\* a second client is being served after the first one disconnected
C5_SecondClientAfterDisconnect ==
    /\ IsServer /\ IsTcp /\ ~stop
    /\ sendErrors >= 1 /\ accepted = 2
    /\ connOpen /\ listenOpen /\ listenMade = 1
    /\ pc = "send"

\* C6: a receiver whose first receive times out reports "no traffic", never
\* measures and prints neither a sample nor an average.
C6_NoTrafficNoStatistics ==
    /\ [][(IsClient /\ pc = "first" /\ now' = now + FirstPacketTimeout) =>
            ("no traffic" \in reports' /\ pc' = "done")]_vars
    /\ [](("no traffic" \in reports) =>
            /\ pc = "done"
            /\ "first packet" \notin reports
            /\ start_time = -1 /\ total_bytes = 0
            /\ samples = 0
            /\ ~result.printed /\ ~result.divided /\ result.avgNum = 0)

\* a UDP receiver that has given up after 5 s without a datagram
C6_UdpGaveUp ==
    /\ IsClient /\ IsUdp /\ pc = "done"
    /\ "no traffic" \in reports
    /\ now = FirstPacketTimeout

\* C7: a session finalized with final_time <= 0 divides nothing by it and
\* has an average of 0; no average is ever computed with final_time <= 0.
C7_NoDivisionByNonPositiveElapsed ==
    /\ ~result.zeroDiv
    /\ result.divided => result.final_time > 0
    /\ (result.finalized /\ result.final_time <= 0) =>
            (~result.divided /\ result.avgNum = 0)

\* a session with received bytes finalized before any time has passed
C7_FinalizedAtOnce ==
    /\ result.finalized /\ result.final_time = 0
    /\ result.total > 0
    /\ pc = "done"

\* C8: a sample is printed only by a receive whose timestamp is at least
\* 1 s after the previous sample (or the start); its rate is the bytes since
\* that sample * 8 over the seconds since it; printing it moves the window
\* start to the current time and byte count; nothing else moves the window.
C8_SamplesOncePerSecond ==
    /\ [][(samples' # samples) =>
            /\ samples' = samples + 1
            /\ pc = "recv" /\ recvSum' >= recvSum
            /\ now' - last_report_time >= ReportPeriod
            /\ lastSample'.t = now'
            /\ lastSample'.dt = now' - last_report_time
            /\ lastSample'.bits = (total_bytes' - last_bytes) * 8
            /\ last_report_time' = now'
            /\ last_bytes' = total_bytes'
            /\ samples > 0 => lastSample'.t - lastSample.t >= ReportPeriod]_vars
    /\ [][(Measuring /\ samples' = samples) =>
            (last_report_time' = last_report_time /\ last_bytes' = last_bytes)]_vars

\* two samples, the second one more than a second after the first
C8_TwoSamplesUnaligned ==
    /\ IsClient /\ samples = 2
    /\ lastSample.dt > ReportPeriod
    /\ lastSample.delta_bytes > 0

\* the second report window closes on a receive within the 2.5 s
SecondWindowFits ==
    2 * CeilDiv(ReportPeriod, spacing) * spacing <= ScenarioDuration

\* C9 as stated: packets at a constant rate for exactly 2.5 s give exactly
\* two samples.
C9_AlwaysTwoSamples ==
    pc = "done" => samples = 2

\* C9: packets of perEvent bytes every spacing ticks for exactly 2.5 s:
\* every sample has the rate perEvent / spacing, the average over the 2.5 s
\* is that rate up to the first packet, and there are exactly two samples
\* when the second window closes within the 2.5 s.
C9_TwoSamplesWhenWindowsFit ==
    /\ samples > 0 => lastSample.bits * spacing = 8 * perEvent * lastSample.dt
    /\ pc = "done" =>
         /\ endedBy = "duration"
         /\ result.printed
         /\ result.final_time = ScenarioDuration
         /\ (result.avgNum - 8 * firstLen) * spacing
               = 8 * perEvent * result.final_time
         /\ SecondWindowFits => samples = 2
         /\ ~SecondWindowFits => samples = 1

\* a TCP measurement of 2.5 s with a packet every half second
C9_HalfSecondSpacing ==
    /\ IsTcp /\ pc = "done" /\ spacing = TicksPerSec \div 2
    /\ samples = 2 /\ lastSample.dt = ReportPeriod
    /\ result.final_time = ScenarioDuration

\* C10: a failed UDP send is reported and the same paced loop goes on with
\* the next packet: the loop that is sending after a send error is still
\* the first one.
C10_UdpSendErrorKeepsLoop ==
    (IsServer /\ IsUdp /\ sendErrors > 0 /\ pc \in {"loop", "sleep", "send"})
        => sessions = 1

\* C11: with a target rate of 0 the interval is 0 and the send loop never
\* sleeps.
C11_UnthrottledNeverSleeps ==
    (IsServer /\ args.speed = 0) => (IntervalNum(args) = 0 /\ pc # "sleep")

\* an unthrottled sender about to send its fourth packet
C11_UnthrottledThreeSends ==
    /\ IsServer /\ args.speed = 0 /\ sent = 3 /\ pc = "send"
    /\ nextNum = startNum

\* C12: a receiver session that has measured ends with its statistics
\* computed, and printed when final_time > 0, no later than its socket is
\* closed, however it left the measuring loop.
C12_StatisticsBeforeClose ==
    /\ []((IsClient /\ pc = "done" /\ start_time # -1) =>
            /\ result.finalized /\ ~sockOpen
            /\ result.total = total_bytes
            /\ endedBy \in {"duration", "eof", "cancel", "interrupt", "error"}
            /\ result.final_time > 0 =>
                 (result.printed /\ result.avgNum = 8 * total_bytes))
    /\ [][(IsClient /\ start_time # -1 /\ sockOpen /\ ~sockOpen') =>
            /\ ~result.finalized /\ result'.finalized
            /\ result'.final_time > 0 => result'.printed]_vars

\* a session ended by a receive error after some time, statistics printed
C12_StatisticsAfterError ==
    /\ IsClient /\ pc = "done" /\ endedBy = "error"
    /\ result.printed /\ result.final_time > 0 /\ result.total > 0
    /\ ~sockOpen

\* C13: stop_event is never cleared once set, and every loop condition read
\* after that ends its loop.
C13_StopFlagMonotone ==
    /\ [][stop => stop']_vars
    /\ [][(stop /\ pc' # pc) => pc' \in {"serve", "done"}
                                \/ pc \in {"accepting", "sleep", "send",
                                           "recv", "connect", "first"}]_vars

\* the flag set by another thread and then again by Ctrl+C
C13_SetTwice ==
    /\ stop /\ stopWhere # "none" /\ endedBy = "interrupt" /\ pc = "done"

\* C14: the sender checks the cancellation flag before and after each
\* blocking call, so once the flag is set no sleep is followed by a send and
\* no packet is written: with the flag set the sender never begins a send
\* and the count of packets written stays as it is.
C14_NoSendAfterStop ==
    /\ [][(IsServer /\ stop /\ pc # "send") => pc' # "send"]_vars
    /\ [][(IsServer /\ stop /\ pc # "send") => sent' = sent]_vars

\* C15: a TCP receiver session that ended after connecting -- by the
\* first-packet timeout, a zero-length first read, the duration, the peer's
\* close during Measuring or cancellation -- has closed its socket.
C15_TcpSocketClosedOnReturn ==
    (/\ IsClient /\ IsTcp /\ pc = "done"
     /\ endedBy \in {"no_traffic", "eof_first", "duration", "eof", "cancel"})
        => ~sockOpen

\* C16: when stop_event is set while the TCP sender waits for a client, the
\* sender writes no packet and run_server ends within one accept timeout,
\* no further accept being started; and whenever run_server has ended the
\* listening socket (and any connection) is closed.
C16_CancelWhileListening ==
    /\ []((IsServer /\ IsTcp /\ stop
           /\ stopWhere \in {"serve", "accept_top", "accepting"}) =>
              /\ pc \notin {"sleep", "send"}
              /\ pc # "done" => now - stopAt <= AcceptTimeout
              /\ pc = "accepting" => (stopWhere = "accepting" /\ now = stopAt))
    /\ [][(IsServer /\ IsTcp /\ stop
           /\ stopWhere \in {"serve", "accept_top", "accepting"}) =>
              sent' \in {sent, 0}]_vars
    /\ []((IsServer /\ pc = "done") => (~listenOpen /\ ~connOpen))

\* cancelled during an accept that then ran into its timeout
C16_CancelledDuringAccept ==
    /\ IsServer /\ IsTcp /\ pc = "done" /\ endedBy = "cancel"
    /\ stopWhere = "accepting" /\ now - stopAt = AcceptTimeout
    /\ accepted = 0 /\ sent = 0 /\ ~listenOpen

\* C17: the TCP sender serves one client at a time: while it is between
\* sessions or in accept no accepted connection is open, and a connection
\* is accepted only when the previous one has been closed.
C17_OneClientAtATime ==
    /\ []((IsServer /\ IsTcp /\ pc \in {"serve", "accept_top", "accepting"})
            => ~connOpen)
    /\ [][(IsServer /\ IsTcp /\ accepted' = accepted + 1) =>
            (~connOpen /\ connOpen' /\ pc = "accepting")]_vars

\* the second client has been accepted after the first one disconnected
\* and its connection was closed
C17_SecondAccept ==
    /\ IsServer /\ IsTcp /\ accepted = 2 /\ sessions = 2
    /\ connOpen /\ pc = "loop" /\ sent = 0 /\ sendErrors = 1

\* C18: after its first initialisation the send deadline of a sender that
\* keeps the same TCP connection or the same UDP destination changes only
\* by += interval, once for every packet sent; it is never set to the
\* current time again.
C18_DeadlineOnlyAdvances ==
    /\ [][(IsServer /\ sessions >= 1 /\ accepted' = accepted /\ dest' = dest)
            => nextNum' \in {nextNum, nextNum + IntervalNum(args)}]_vars
    /\ [][(IsServer /\ sent' = sent + 1)
            => nextNum' = nextNum + IntervalNum(args)]_vars

\* C19: a receiver session goes connect -> first receive -> measuring ->
\* ended and never back; before the first packet nothing is counted and no
\* sample is printed; the measuring loop is entered only by a first packet;
\* the final statistics are computed at most once, when the session ends,
\* and no sample follows them.
C19_ReceiverPhaseOrder ==
    /\ []((IsClient /\ "first packet" \notin reports) =>
            /\ ~Measuring
            /\ total_bytes = 0 /\ samples = 0 /\ start_time = -1
            /\ ~result.finalized)
    /\ [][IsClient =>
            /\ pc = "connect" => pc' \in {"connect", "first", "done"}
            /\ pc = "first" => pc' \in {"first", "mloop", "done"}
            /\ Measuring => pc' \in {"mloop", "recv", "done"}
            /\ pc = "done" => pc' = "done"]_vars
    /\ [][(IsClient /\ ~Measuring /\ pc' \in {"mloop", "recv"}) =>
            /\ pc = "first" /\ pc' = "mloop"
            /\ lastRecv' = "data" /\ total_bytes' = firstLen']_vars
    /\ [][(IsClient /\ result' # result) =>
            /\ Measuring /\ pc' = "done"
            /\ ~result.finalized /\ result'.finalized]_vars
    /\ [][(IsClient /\ result.finalized) => samples' = samples]_vars

\* a UDP session that printed samples and then its final statistics
C19_SamplesThenResult ==
    /\ IsClient /\ IsUdp /\ pc = "done" /\ endedBy = "duration"
    /\ samples = 2 /\ result.printed /\ result.final_time >= lastSample.t - start_time

\* C20: while measuring, total_bytes is the sum of the lengths of all
\* successful receives, the first included, and never decreases;
\* last_bytes <= total_bytes; the delta_bytes of the samples printed sum to
\* last_bytes minus the first packet's length; a receive that times out
\* changes none of these counters.
C20_ByteAccounting ==
    /\ [](Measuring =>
            /\ total_bytes = recvSum
            /\ last_bytes <= total_bytes
            /\ sampleSum = last_bytes - firstLen)
    /\ [][IsClient => total_bytes' >= total_bytes]_vars
    /\ [][(IsClient /\ pc = "recv" /\ pc' = "mloop" /\ lastRecv' = "timeout")
            => /\ total_bytes' = total_bytes /\ last_bytes' = last_bytes
               /\ recvSum' = recvSum /\ sampleSum' = sampleSum
               /\ samples' = samples
               /\ last_report_time' = last_report_time]_vars

\* bytes counted in a sample, bytes waiting for the next one, and a timeout
C20_TimeoutBetweenSamples ==
    /\ Measuring /\ samples >= 1 /\ sampleSum > 0
    /\ total_bytes > last_bytes /\ lastRecv = "timeout"
    /\ firstLen = 2
====
